---- MODULE Spec2Model ----
(***************************************************************************)
(* Model of the request handlers of the author-tools API (src/at/api.py).  *)
(*                                                                         *)
(* A Python string is a sequence of tokens (<<>> is ''), so that strip,    *)
(* split('/') and the extension test act on the value.  A handler is an   *)
(* operator from a request to the set of its runs, one run per combination *)
(* of outcomes of the utilities it calls; a run is the log of the calls    *)
(* made, in order, and the response.  The utilities of at.utils are        *)
(* outside src/: each is modelled by the set of outcomes it can have.      *)
(***************************************************************************)
EXTENDS Naturals, Sequences, FiniteSets

VARIABLES endpoint, request, calls, response

vars == <<endpoint, request, calls, response>>

(***************************************************************************)
(* Bounds of the model.                                                    *)
(***************************************************************************)
\* number of distinct draft names clients ask for
NumDocs == 1
\* number of distinct URLs clients ask for
NumUrls == 3
\* number of parts of the text of a diff
MaxDiffParts == 2

BAD_REQUEST == 400
\* flask's status of jsonify(...) returned without a status
HTTP_OK == 200

(***************************************************************************)
(* Strings.                                                                *)
(***************************************************************************)
None == <<"None">>

RECURSIVE lstrip(_)
lstrip(s) == IF s # <<>> /\ Head(s) = " " THEN lstrip(Tail(s)) ELSE s

RECURSIVE rstrip(_)
rstrip(s) ==
    IF s # <<>> /\ s[Len(s)] = " " THEN rstrip(SubSeq(s, 1, Len(s) - 1)) ELSE s

\* str.strip()
strip(s) == rstrip(lstrip(s))

\* s.split('/')[-1]
RECURSIVE last_component(_)
last_component(s) ==
    IF s = <<>> THEN <<>>
    ELSE IF s[Len(s)] = "/" THEN <<>>
    ELSE Append(last_component(SubSeq(s, 1, Len(s) - 1)), s[Len(s)])

\* dict.get(key, default) of request.values and request.files
get(d, key, default) == IF key \in DOMAIN d THEN d[key] ELSE default

\* the truth value Python gives a string
truthy(s) == s # <<>>

\* str.lower() on an extension token
lower(t) ==
    CASE t = ".XML" -> ".xml"
      [] t = ".TXT" -> ".txt"
      [] t = ".SVG" -> ".svg"
      [] OTHER -> t

(***************************************************************************)
(* Runs, calls and responses.                                              *)
(***************************************************************************)
\* no response yet
NoResponse == [kind |-> "none", status |-> 0, error |-> <<>>, body |-> <<>>]

Call(fn, args, out) == [fn |-> fn, args |-> args, out |-> out]

\* jsonify(error=msg), status
json_error(log, msg, status) ==
    [calls |-> log,
     resp |-> [kind |-> "error", status |-> status, error |-> msg, body |-> <<>>]]

\* a successful response
ok_response(log, body) ==
    [calls |-> log,
     resp |-> [kind |-> "ok", status |-> HTTP_OK, error |-> <<>>, body |-> body]]

\* the request ends with an exception no handler catches
uncaught(log, exc) ==
    [calls |-> log,
     resp |-> [kind |-> "uncaught", status |-> 500,
               error |-> <<exc>>, body |-> <<>>]]

(***************************************************************************)
(* at.utils: the outcomes of the utilities the handlers call.              *)
(***************************************************************************)
UPLOAD_DIR == <<"/", "upload">>

\* the directory of the n-th file staged by a request
staging_dir(n) == UPLOAD_DIR \o <<"/", IF n = 1 THEN "id1" ELSE "id2">>

ALLOWED_EXTENSIONS == {".txt", ".xml", ".md", ".mkd"}
ALLOWED_EXTENSIONS_SVGCHECK == {".svg"}
KnownExtensions ==
    ALLOWED_EXTENSIONS \cup ALLOWED_EXTENSIONS_SVGCHECK
        \cup {".odt", ".XML", ".TXT", ".SVG"}

\* the extension of a filename, '' when it has none
suffix(filename) ==
    IF filename # <<>> /\ filename[Len(filename)] \in KnownExtensions
    THEN filename[Len(filename)] ELSE ""

\* the filename without its extension
stem(filename) ==
    IF suffix(filename) = "" THEN filename
    ELSE SubSeq(filename, 1, Len(filename) - 1)

allowed_file(filename, process) ==
    IF process = "svgcheck"
    THEN lower(suffix(filename)) \in ALLOWED_EXTENSIONS_SVGCHECK
    ELSE lower(suffix(filename)) \in ALLOWED_EXTENSIONS

\* process_file stages the upload and converts it to xml with the tool of
\* its format
process_file_outcomes(filename) ==
    {"ok"} \cup
    (CASE lower(suffix(filename)) = ".md" -> {"KramdownError"}
       [] lower(suffix(filename)) = ".mkd" -> {"MmarkError"}
       [] lower(suffix(filename)) = ".txt" -> {"TextError"}
       [] OTHER -> {})

\* the (dir_path, filename) process_file returns
process_file_result(filename, n) ==
    [dir_path |-> staging_dir(n),
     filename |-> staging_dir(n) \o <<"/">> \o stem(filename) \o <<".xml">>]

xml2rfc_outcomes == {"ok", "XML2RFCError"}

\* the file an xml2rfc step writes next to its input
rendered(path, ext) == stem(path) \o <<ext>>

\* get_file: the name of a file without its directory
get_file(path) == last_component(path)

\* save_file stages the upload under its own name
save_file_result(filename, n) ==
    [dir_path |-> staging_dir(n),
     filename |-> staging_dir(n) \o <<"/">> \o filename]

svgcheck_outcomes == {"ok", "SvgCheckError"}

\* a local variable no statement has assigned
Unbound == <<"<unbound>">>

ALLOWED_DOMAINS == {"www.ietf.org", "datatracker.ietf.org"}

\* the host of a URL, '' when the URL is not well formed
host(url) ==
    IF Len(url) >= 2 /\ url[1] \in {"https://", "http://"} THEN url[2] ELSE ""

\* is_valid_url accepts a well formed URL of an allowed host; the handlers
\* provide for a URL it rejects by raising InvalidURL and for one it rejects
\* by returning a false value
is_valid_url_outcomes(url) ==
    IF host(url) \in ALLOWED_DOMAINS THEN {"True"} ELSE {"False", "InvalidURL"}

get_latest_outcomes == {"ok", "LatestDraftNotFound", "DownloadError"}

\* the URL the registry gives for a draft: its latest revision, or the
\* revision before original_draft when one is given
get_latest_result(doc, original_draft) ==
    <<"https://", "www.ietf.org", "/", "archive", "/", "id", "/">>
        \o <<doc[1]>>
        \o <<IF original_draft = <<"logger">> THEN "-latest" ELSE "-previous">>
        \o <<".txt">>

get_text_id_from_url_outcomes == {"ok", "DownloadError", "TextProcessingError"}

\* the (dir_path, filename) of the text of the document at a URL
get_text_id_from_url_result(url, n) ==
    [dir_path |-> staging_dir(n),
     filename |->
         staging_dir(n) \o <<"/">> \o stem(last_component(url)) \o <<".txt">>]

get_text_id_from_file_outcomes == {"ok", "TextProcessingError"}

\* the (dir_path, filename) of the text of an uploaded file
get_text_id_from_file_result(filename, n) ==
    [dir_path |-> staging_dir(n),
     filename |-> staging_dir(n) \o <<"/">> \o stem(filename) \o <<".txt">>]

\* the names get_name knows as drafts and rfcs
DraftNames == {"draft-smoke-signals", "draft-ietf-foo", "rfc9000"}

\* get_name: the draft name of a filename without revision and extension,
\* None when the filename is not that of a draft or rfc
get_name(filename) ==
    IF filename # <<>> /\ filename[1] \in DraftNames
    THEN <<filename[1]>> ELSE None

\* get_name_with_revision: the draft name with its revision
get_name_with_revision(filename) ==
    IF filename # <<>> /\ filename[1] \in DraftNames
    THEN stem(filename) ELSE None

iddiff_outcomes == {"ok", "IddiffError"}

\* what the text of a diff is made of: the drafts' lines may hold any text,
\* the directory of a staged draft and a '/' among it
diff_parts(dir_path_1, dir_path_2) == {dir_path_1, dir_path_2, <<"/">>}

\* the texts of at most n parts
RECURSIVE texts_of(_, _)
texts_of(parts, n) ==
    IF n = 0 THEN {<<>>}
    ELSE texts_of(parts, n - 1)
            \cup { t \o part : t \in texts_of(parts, n - 1), part \in parts }

\* the lines of the two drafts that iddiff shows
diff_bodies(dir_path_1, dir_path_2) ==
    texts_of(diff_parts(dir_path_1, dir_path_2), MaxDiffParts)

\* the output of iddiff names the two files it compared and shows their lines
get_id_diff_result(old_draft, new_draft, body) ==
    <<"<html>", "--- ">> \o old_draft \o <<"+++ ">> \o new_draft
        \o <<"\n">> \o body \o <<"</html>">>

\* whether pattern occurs in text at position i
occurs_at(text, pattern, i) ==
    /\ i + Len(pattern) - 1 <= Len(text)
    /\ SubSeq(text, i, i + Len(pattern) - 1) = pattern

\* str.replace(pattern, ''): the occurrences are removed from left to right
RECURSIVE remove_all(_, _)
remove_all(text, pattern) ==
    IF text = <<>> \/ pattern = <<>> THEN text
    ELSE IF occurs_at(text, pattern, 1)
    THEN remove_all(SubSeq(text, Len(pattern) + 1, Len(text)), pattern)
    ELSE <<Head(text)>> \o remove_all(Tail(text), pattern)

\* save_file_from_text stages raw text
save_file_from_text_result(n) ==
    [dir_path |-> staging_dir(n),
     filename |-> staging_dir(n) \o <<"/">> \o <<"input", ".abnf">>]

(***************************************************************************)
(* render                                                                  *)
(***************************************************************************)
\* 'file' not in request.files
no_file(req) == "file" \notin DOMAIN req.files

\* a handler that forgets the status answers 200
no_file_response_without_status == json_error(<<>>, <<"No file">>, HTTP_OK)

\* lines 41-42, 110-111 and 461-462
no_file_response == json_error(<<>>, <<"No file">>, BAD_REQUEST)

\* file.filename == ''
filename_missing(filename) == filename = <<>>

\* a handler that stages whatever has a name
input_supported_any_extension(filename, process) == truthy(filename)

\* file and allowed_file(file.filename): a FileStorage is true when its
\* filename is not empty
input_supported(filename, process) ==
    truthy(filename) /\ allowed_file(filename, process)

\* a handler that renders text for pdf
render_step_pdf_as_text(format) ==
    CASE format = <<"xml">> -> ""
      [] format = <<"html">> -> "get_html"
      [] format \in {<<"text">>, <<"pdf">>} -> "get_text"
      [] OTHER -> "unsupported"

\* the xml2rfc step of a render format: "" for xml, which needs none, and
\* "unsupported" for a format of the final else
render_step(format) ==
    CASE format = <<"xml">> -> ""
      [] format = <<"html">> -> "get_html"
      [] format = <<"text">> -> "get_text"
      [] format = <<"pdf">> -> "get_pdf"
      [] OTHER -> "unsupported"

\* the extension of the file a step writes
step_extension(step) ==
    CASE step = "get_html" -> ".html"
      [] step = "get_text" -> ".txt"
      [] step = "get_pdf" -> ".pdf"
      [] OTHER -> ".xml"

\* lines 70-95: the step of the format, then send_from_directory
render_target(req, staged, xml_file, log) ==
    LET step == render_step(req.format) IN
    IF step = "" THEN
        {ok_response(log, staged.dir_path \o <<"/">> \o get_file(get_file(xml_file)))}
    ELSE IF step = "unsupported" THEN
        {json_error(log, <<"Render format not supported">>, BAD_REQUEST)}
    ELSE
        { LET c3 == log \o <<Call(step, <<xml_file>>, o3)>>
              out_file == rendered(xml_file, step_extension(step))
          IN
          IF o3 = "XML2RFCError"
          THEN json_error(c3, <<"xml2rfc error: ", o3>>, BAD_REQUEST)
          ELSE ok_response(
                   c3, staged.dir_path \o <<"/">> \o get_file(get_file(out_file)))
        : o3 \in xml2rfc_outcomes }

\* lines 65-95
render_xml(req, staged, log) ==
    UNION {
        LET c2 == log \o <<Call("get_xml", <<staged.filename>>, o2)>>
            xml_file == staged.filename
        IN
        IF o2 = "XML2RFCError"
        THEN {json_error(c2, <<"xml2rfc error: ", o2>>, BAD_REQUEST)}
        ELSE render_target(req, staged, xml_file, c2)
      : o2 \in xml2rfc_outcomes }

render(req) ==
    IF no_file(req) THEN {no_file_response}
    ELSE LET file == req.files["file"] IN
    IF filename_missing(file)
    THEN {json_error(<<>>, <<"Filename is missing">>, BAD_REQUEST)}
    ELSE IF input_supported(file, "") THEN
        UNION {
            LET c1 == <<Call("process_file", <<file>>, o1)>> IN
            IF o1 = "KramdownError"
            THEN {json_error(c1, <<"kramdown-rfc error: ", o1>>, BAD_REQUEST)}
            ELSE IF o1 = "MmarkError"
            THEN {json_error(c1, <<"mmark error: ", o1>>, BAD_REQUEST)}
            ELSE IF o1 = "TextError"
            THEN {json_error(c1, <<"id2xml error: ", o1>>, BAD_REQUEST)}
            ELSE render_xml(req, process_file_result(file, 1), c1)
          : o1 \in process_file_outcomes(file) }
    ELSE {json_error(<<>>, <<"Input file format not supported">>, BAD_REQUEST)}

(***************************************************************************)
(* validate                                                                *)
(***************************************************************************)
\* lines 134-139
validate_staged(staged, log) ==
    { LET c2 == log \o <<Call("validate_xml", <<staged.filename>>, o2)>> IN
      IF o2 = "XML2RFCError"
      THEN json_error(c2, <<"xml2rfc error: ", o2>>, BAD_REQUEST)
      ELSE ok_response(c2, <<"log">>)
    : o2 \in xml2rfc_outcomes }

validate(req) ==
    IF no_file(req) THEN {no_file_response}
    ELSE LET file == req.files["file"] IN
    IF filename_missing(file)
    THEN {json_error(<<>>, <<"Filename is missing">>, BAD_REQUEST)}
    ELSE IF input_supported(file, "") THEN
        UNION {
            LET c1 == <<Call("process_file", <<file>>, o1)>> IN
            IF o1 = "KramdownError"
            THEN {json_error(c1, <<"kramdown-rfc error: ", o1>>, BAD_REQUEST)}
            ELSE IF o1 = "MmarkError"
            THEN {json_error(c1, <<"mmark error: ", o1>>, BAD_REQUEST)}
            ELSE IF o1 = "TextError"
            THEN {json_error(c1, <<"id2xml error: ", o1>>, BAD_REQUEST)}
            ELSE validate_staged(process_file_result(file, 1), c1)
          : o1 \in process_file_outcomes(file) }
    ELSE {json_error(<<>>, <<"Input file format not supported">>, BAD_REQUEST)}

(***************************************************************************)
(* svgcheck                                                                *)
(***************************************************************************)
svgcheck(req) ==
    IF no_file(req) THEN {no_file_response}
    ELSE LET file == req.files["file"] IN
    IF filename_missing(file)
    THEN {json_error(<<>>, <<"Filename is missing">>, BAD_REQUEST)}
    ELSE IF input_supported(file, "svgcheck") THEN
        { LET staged == save_file_result(file, 1)
              c2 == <<Call("save_file", <<file>>, "ok"),
                      Call("get_svgcheck", <<staged.filename>>, o2)>>
          IN
          IF o2 = "SvgCheckError"
          THEN json_error(c2, <<o2>>, BAD_REQUEST)
          ELSE ok_response(c2, <<"svgcheck", "svg">>)
        : o2 \in svgcheck_outcomes }
    ELSE {json_error(<<>>, <<"Input file format not supported">>, BAD_REQUEST)}

(***************************************************************************)
(* idnits                                                                  *)
(***************************************************************************)
\* request.values.get(key, False) used as a condition
flag(values, key) == IF truthy(get(values, key, <<>>)) THEN "True" ELSE "False"

\* lines 184-194: filename is bound only when the fetch has run
idnits_report(req, filename, log) ==
    IF filename = Unbound THEN uncaught(log, "UnboundLocalError")
    ELSE
        LET verbose == strip(get(req.values, "verbose", <<"0">>))
            show_text == IF flag(req.values, "hidetext") = "True"
                         THEN "False" ELSE "True"
            year == strip(get(req.values, "year", <<>>))
            submit_check == flag(req.values, "submitcheck")
        IN ok_response(
               log \o <<Call("get_idnits",
                             <<filename, verbose, <<show_text>>, year,
                               <<submit_check>>>>, "ok")>>,
               <<"idnits output">>)

idnits(req) ==
    LET url == strip(get(req.values, "url", <<>>)) IN
    IF url = <<>> THEN {json_error(<<>>, <<"URL is missing">>, BAD_REQUEST)}
    ELSE UNION {
        LET c1 == <<Call("is_valid_url", <<url>>, o1)>> IN
        IF o1 = "InvalidURL" THEN {json_error(c1, <<o1>>, BAD_REQUEST)}
        ELSE IF o1 = "True" THEN
            { LET c2 == c1 \o <<Call("get_text_id_from_url", <<url>>, o2)>> IN
              IF o2 \in {"TextProcessingError", "DownloadError"}
              THEN json_error(c2, <<o2>>, BAD_REQUEST)
              ELSE idnits_report(
                       req, get_text_id_from_url_result(url, 1).filename, c2)
            : o2 \in get_text_id_from_url_outcomes }
        ELSE {idnits_report(req, Unbound, c1)}
      : o1 \in is_valid_url_outcomes(url) }

(***************************************************************************)
(* abnf/extract and abnf/parse                                             *)
(***************************************************************************)
\* lines 411-421 with the except clauses of lines 425-428
abnf_fetch(url, log) ==
    { LET c2 == log \o <<Call("get_text_id_from_url", <<url>>, o2)>>
          filename == get_text_id_from_url_result(url, 1).filename
      IN
      IF o2 \in {"DownloadError", "TextProcessingError"}
      THEN json_error(c2, <<o2>>, BAD_REQUEST)
      ELSE ok_response(c2 \o <<Call("extract_abnf", <<filename>>, "ok")>>,
                       <<"abnf">>)
    : o2 \in get_text_id_from_url_outcomes }

abnf_extract(req) ==
    LET url == strip(get(req.values, "url", <<>>))
        doc == strip(get(req.values, "doc", <<>>))
    IN
    IF url # <<>> THEN
        UNION {
            LET c1 == <<Call("is_valid_url", <<url>>, o1)>> IN
            IF o1 = "InvalidURL" THEN {json_error(c1, <<o1>>, BAD_REQUEST)}
            ELSE abnf_fetch(url, c1)
          : o1 \in is_valid_url_outcomes(url) }
    ELSE IF doc # <<>> THEN
        UNION {
            LET c1 == <<Call("get_latest", <<doc, <<"logger">>>>, o1)>> IN
            IF o1 \in {"LatestDraftNotFound", "DownloadError"}
            THEN {json_error(c1, <<o1>>, BAD_REQUEST)}
            ELSE abnf_fetch(get_latest_result(doc, <<"logger">>), c1)
          : o1 \in get_latest_outcomes }
    ELSE {json_error(<<>>, <<"URL/document name must be provided">>, BAD_REQUEST)}

abnf_parse(req) ==
    LET input == get(req.values, "input", <<>>)
        filename == save_file_from_text_result(1).filename
    IN
    {ok_response(<<Call("save_file_from_text", <<input>>, "ok"),
                   Call("parse_abnf", <<filename>>, "ok")>>,
                 <<"errors", "abnf">>)}

(***************************************************************************)
(* iddiff                                                                  *)
(***************************************************************************)
\* a handler that takes a lone doc_2 or url_2 as the first draft and keeps it
\* as the second one too
id_diff_params_keeping_second(req) ==
    LET doc_1 == strip(get(req.values, "doc_1", <<>>))
        doc_2 == strip(get(req.values, "doc_2", <<>>))
        url_1 == strip(get(req.values, "url_1", <<>>))
        url_2 == strip(get(req.values, "url_2", <<>>))
    IN
    IF "file_1" \notin DOMAIN req.files /\ ~truthy(doc_1) /\ ~truthy(url_1) THEN
        IF truthy(doc_2)
        THEN [doc_1 |-> doc_2, doc_2 |-> doc_2, url_1 |-> url_1, url_2 |-> url_2]
        ELSE IF truthy(url_2)
        THEN [doc_1 |-> doc_1, doc_2 |-> doc_2, url_1 |-> url_2, url_2 |-> url_2]
        ELSE [doc_1 |-> doc_1, doc_2 |-> doc_2, url_1 |-> url_1, url_2 |-> url_2]
    ELSE [doc_1 |-> doc_1, doc_2 |-> doc_2, url_1 |-> url_1, url_2 |-> url_2]

\* lines 206-218: the parameters, a lone doc_2 or url_2 taken as doc_1 or url_1
id_diff_params(req) ==
    LET doc_1 == strip(get(req.values, "doc_1", <<>>))
        doc_2 == strip(get(req.values, "doc_2", <<>>))
        url_1 == strip(get(req.values, "url_1", <<>>))
        url_2 == strip(get(req.values, "url_2", <<>>))
    IN
    IF "file_1" \notin DOMAIN req.files /\ ~truthy(doc_1) /\ ~truthy(url_1) THEN
        IF truthy(doc_2)
        THEN [doc_1 |-> doc_2, doc_2 |-> <<>>, url_1 |-> url_1, url_2 |-> url_2]
        ELSE IF truthy(url_2)
        THEN [doc_1 |-> doc_1, doc_2 |-> doc_2, url_1 |-> url_2, url_2 |-> <<>>]
        ELSE [doc_1 |-> doc_1, doc_2 |-> doc_2, url_1 |-> url_1, url_2 |-> url_2]
    ELSE [doc_1 |-> doc_1, doc_2 |-> doc_2, url_1 |-> url_1, url_2 |-> url_2]

\* dir_path_n and filename_n before any statement assigns them
UnboundDraft == [dir_path |-> Unbound, filename |-> Unbound]

\* the handler goes on after a draft is resolved: no response yet
resolved(log, draft, single_draft) ==
    [calls |-> log, resp |-> NoResponse, draft |-> draft,
     single_draft |-> single_draft]

\* the handler has returned or raised while resolving a draft
ended(run) ==
    [calls |-> run.calls, resp |-> run.resp, draft |-> UnboundDraft,
     single_draft |-> FALSE]

\* lines 268-274 and 345-351: the fetch of the URL the registry gave
fetch_latest(url, n, log) ==
    { LET c2 == log \o <<Call("get_text_id_from_url", <<url>>, o2)>> IN
      IF o2 = "DownloadError" THEN ended(json_error(c2, <<o2>>, BAD_REQUEST))
      ELSE IF o2 = "TextProcessingError" THEN ended(uncaught(c2, o2))
      ELSE resolved(c2, get_text_id_from_url_result(url, n), FALSE)
    : o2 \in get_text_id_from_url_outcomes }

\* lines 276-287 and 353-364: a draft given by URL
fetch_url(url, n, log) ==
    UNION {
        LET c1 == log \o <<Call("is_valid_url", <<url>>, o1)>> IN
        IF o1 = "InvalidURL" THEN {ended(json_error(c1, <<o1>>, BAD_REQUEST))}
        ELSE IF o1 = "True" THEN
            { LET c2 == c1 \o <<Call("get_text_id_from_url", <<url>>, o2)>> IN
              IF o2 = "DownloadError"
              THEN ended(json_error(c2, <<o2>>, BAD_REQUEST))
              ELSE IF o2 = "TextProcessingError" THEN ended(uncaught(c2, o2))
              ELSE resolved(c2, get_text_id_from_url_result(url, n), FALSE)
            : o2 \in get_text_id_from_url_outcomes }
        ELSE {resolved(c1, UnboundDraft, FALSE)}
      : o1 \in is_valid_url_outcomes(url) }

\* lines 232-287: the first draft
first_draft(req, p) ==
    IF ~truthy(p.doc_1) /\ ~truthy(p.url_1) THEN
        IF "file_1" \notin DOMAIN req.files
        THEN {ended(json_error(<<>>, <<"No documents to compare">>, BAD_REQUEST))}
        ELSE LET file_1 == req.files["file_1"] IN
        IF filename_missing(file_1)
        THEN {ended(json_error(
                  <<>>, <<"Filename of first draft missing">>, BAD_REQUEST))}
        ELSE IF input_supported(file_1, "") THEN
            { LET c1 == <<Call("get_text_id_from_file", <<file_1>>, o1)>> IN
              IF o1 = "TextProcessingError"
              THEN ended(json_error(
                       c1, <<"Error converting first draft to text: ", o1>>,
                       BAD_REQUEST))
              ELSE resolved(c1, get_text_id_from_file_result(file_1, 1), FALSE)
            : o1 \in get_text_id_from_file_outcomes }
        ELSE {ended(json_error(
                  <<>>, <<"First file format not supported">>, BAD_REQUEST))}
    ELSE IF truthy(p.doc_1) THEN
        UNION {
            LET c1 == <<Call("get_latest", <<p.doc_1, <<"logger">>>>, o1)>> IN
            IF o1 \in {"LatestDraftNotFound", "DownloadError"}
            THEN {ended(json_error(c1, <<o1>>, BAD_REQUEST))}
            ELSE fetch_latest(get_latest_result(p.doc_1, <<"logger">>), 1, c1)
          : o1 \in get_latest_outcomes }
    ELSE fetch_url(p.url_1, 1, <<>>)

\* file_1 is assigned on line 237 only
file_1_bound(p) == ~truthy(p.doc_1) /\ ~truthy(p.url_1)

\* lines 291-314: the revision before the first draft
previous_revision(p, first, log) ==
    IF first.filename = Unbound
    THEN {ended(uncaught(log, "UnboundLocalError"))}
    ELSE
    LET filename == last_component(first.filename)
        draft_name == get_name(filename)
        original_draft == get_name_with_revision(filename)
    IN
    IF draft_name = None THEN
        IF file_1_bound(p)
        THEN {ended(json_error(log, <<"Can not determine draft/rfc">>, HTTP_OK))}
        ELSE {ended(uncaught(log, "UnboundLocalError"))}
    ELSE UNION {
        LET c1 == log \o <<Call("get_latest", <<draft_name, original_draft>>, o1)>>
            url == get_latest_result(draft_name, original_draft)
        IN
        IF o1 \in {"LatestDraftNotFound", "DownloadError"}
        THEN {ended(json_error(c1, <<o1>>, BAD_REQUEST))}
        ELSE
            { LET c2 == c1 \o <<Call("get_text_id_from_url", <<url>>, o2)>> IN
              IF o2 = "DownloadError"
              THEN ended(json_error(c2, <<o2>>, BAD_REQUEST))
              ELSE IF o2 = "TextProcessingError" THEN ended(uncaught(c2, o2))
              ELSE resolved(c2, get_text_id_from_url_result(url, 2), TRUE)
            : o2 \in get_text_id_from_url_outcomes }
      : o1 \in get_latest_outcomes }

\* lines 289-364: the second draft
second_draft(req, p, first, log) ==
    IF ~truthy(p.doc_2) /\ ~truthy(p.url_2) THEN
        IF "file_2" \notin DOMAIN req.files
        THEN previous_revision(p, first, log)
        ELSE LET file_2 == req.files["file_2"] IN
        IF filename_missing(file_2)
        THEN {ended(json_error(
                  log, <<"Filename of second draft missing">>, BAD_REQUEST))}
        ELSE IF input_supported(file_2, "") THEN
            { LET c1 == log \o <<Call("get_text_id_from_file", <<file_2>>, o1)>> IN
              IF o1 = "TextProcessingError"
              THEN ended(json_error(
                       c1, <<"Error converting second draft to text: ", o1>>,
                       BAD_REQUEST))
              ELSE resolved(c1, get_text_id_from_file_result(file_2, 2), FALSE)
            : o1 \in get_text_id_from_file_outcomes }
        ELSE {ended(json_error(
                  log, <<"Second file format not supported">>, BAD_REQUEST))}
    ELSE IF truthy(p.doc_2) THEN
        UNION {
            LET c1 == log \o <<Call("get_latest", <<p.doc_2, <<"logger">>>>, o1)>> IN
            IF o1 = "LatestDraftNotFound"
            THEN {ended(json_error(c1, <<o1>>, BAD_REQUEST))}
            ELSE IF o1 = "DownloadError" THEN {ended(uncaught(c1, o1))}
            ELSE fetch_latest(get_latest_result(p.doc_2, <<"logger">>), 2, c1)
          : o1 \in get_latest_outcomes }
    ELSE fetch_url(p.url_2, 2, log)

\* a handler that never reverses the drafts
diff_order_never_reversed(single_draft, filename_1, filename_2) ==
    [old_draft |-> filename_1, new_draft |-> filename_2]

\* lines 367-372: which draft is the old one
diff_order(single_draft, filename_1, filename_2) ==
    IF single_draft
    THEN [old_draft |-> filename_2, new_draft |-> filename_1]
    ELSE [old_draft |-> filename_1, new_draft |-> filename_2]

\* lines 378-379: the staging directories are removed from the output
strip_dir_paths(iddiff, dir_path_1, dir_path_2) ==
    remove_all(remove_all(iddiff, dir_path_1 \o <<"/">>), dir_path_2 \o <<"/">>)

\* lines 366-382
compare(req, first, second, single_draft, log) ==
    IF first.filename = Unbound \/ second.filename = Unbound
    THEN {uncaught(log, "UnboundLocalError")}
    ELSE
    LET order == diff_order(single_draft, first.filename, second.filename)
        table == flag(req.values, "table")
        wdiff == flag(req.values, "wdiff")
    IN
    UNION {
        LET c1 == log \o <<Call("get_id_diff",
                                <<order.old_draft, order.new_draft,
                                  <<table>>, <<wdiff>>>>, o1)>>
        IN
        IF o1 = "IddiffError"
        THEN {json_error(c1, <<"iddiff error: ", o1>>, BAD_REQUEST)}
        ELSE { ok_response(
                   c1, strip_dir_paths(
                           get_id_diff_result(
                               order.old_draft, order.new_draft, body),
                           first.dir_path, second.dir_path))
             : body \in diff_bodies(first.dir_path, second.dir_path) }
      : o1 \in iddiff_outcomes }

id_diff(req) ==
    LET p == id_diff_params(req) IN
    UNION {
        IF r1.resp # NoResponse THEN {[calls |-> r1.calls, resp |-> r1.resp]}
        ELSE UNION {
            IF r2.resp # NoResponse
            THEN {[calls |-> r2.calls, resp |-> r2.resp]}
            ELSE compare(req, r1.draft, r2.draft, r2.single_draft, r2.calls)
          : r2 \in second_draft(req, p, r1.draft, r1.calls) }
      : r1 \in first_draft(req, p) }

(***************************************************************************)
(* Requests.                                                               *)
(***************************************************************************)
EmptyRequest == [format |-> <<>>, files |-> <<>>, values |-> <<>>]

\* the names of uploaded files
FileNames ==
    { <<>>,
      <<"draft-smoke-signals", "-00", ".xml">>,
      <<"draft-smoke-signals", "-00", ".txt">>,
      <<"draft-smoke-signals", "-00", ".md">>,
      <<"draft-smoke-signals", "-00", ".mkd">>,
      <<"draft-smoke-signals", "-00", ".odt">>,
      <<"draft-smoke-signals", "-00", ".XML">>,
      <<"drawing", ".svg">>,
      <<"README">> }

\* request.files with any subset of the keys present
Files(keys, names) == UNION { [S -> names] : S \in SUBSET keys }

Formats == { <<"xml">>, <<"html">>, <<"text">>, <<"pdf">>, <<"flac">> }

RenderRequests ==
    { [format |-> f, files |-> fs, values |-> <<>>] :
        f \in Formats, fs \in Files({"file"}, FileNames) }

UploadRequests ==
    { [format |-> <<>>, files |-> fs, values |-> <<>>] :
        fs \in Files({"file"}, FileNames) }

\* a key the request does not carry
Absent == <<"<absent>">>

\* the dict of the keys of r that are present
Present(r) == [k \in {x \in DOMAIN r : r[x] # Absent} |-> r[k]]

DocTable ==
    << <<"draft-smoke-signals">>, <<"draft-ietf-foo", "-02">>, <<"rfc9000">> >>

Docs == { DocTable[i] : i \in 1..(IF NumDocs < 3 THEN NumDocs ELSE 3) }

UrlTable ==
    << <<"https://", "www.ietf.org", "/", "archive", "/", "id", "/",
         "draft-smoke-signals", "-01", ".txt">>,
       <<"https://", "example.org", "/", "draft-smoke-signals", "-01", ".txt">>,
       <<"https://", "datatracker.ietf.org", "/", "notes", ".txt">>,
       <<"ftp://", "www.ietf.org", "/", "draft-ietf-foo", "-02", ".txt">> >>

Urls == { UrlTable[i] : i \in 1..(IF NumUrls < 4 THEN NumUrls ELSE 4) }

OptionalFlag == {Absent, <<"1">>}

IdnitsRequests ==
    { [format |-> <<>>, files |-> <<>>, values |-> Present(v)] :
        v \in [url : {Absent, <<>>, <<" ">>} \cup Urls,
               verbose : OptionalFlag,
               hidetext : OptionalFlag,
               year : {Absent, <<"2024">>},
               submitcheck : OptionalFlag] }

AbnfExtractRequests ==
    { [format |-> <<>>, files |-> <<>>, values |-> Present(v)] :
        v \in [url : {Absent, <<" ">>} \cup Urls,
               doc : {Absent, <<>>} \cup Docs] }

AbnfParseRequests ==
    { [format |-> <<>>, files |-> <<>>, values |-> Present(v)] :
        v \in [input : {Absent, <<"rule", " = ", "ALPHA">>}] }

IdDiffFileNames ==
    { <<>>,
      <<"draft-smoke-signals", "-01", ".txt">>,
      <<"draft-smoke-signals", "-01", ".odt">>,
      <<"notes", ".txt">> }

IdDiffRequests ==
    { [format |-> <<>>, files |-> fs, values |-> Present(v)] :
        fs \in Files({"file_1", "file_2"}, IdDiffFileNames),
        v \in [doc_1 : {Absent} \cup Docs,
               doc_2 : {Absent} \cup Docs,
               url_1 : {Absent} \cup Urls,
               url_2 : {Absent} \cup Urls,
               table : OptionalFlag,
               wdiff : OptionalFlag] }

(***************************************************************************)
(* The server: it takes a request when idle, runs its handler to the       *)
(* response, and is idle again once the response is sent.                  *)
(***************************************************************************)
Init ==
    /\ endpoint = "idle"
    /\ request = EmptyRequest
    /\ calls = <<>>
    /\ response = NoResponse

Render ==
    /\ endpoint = "idle"
    /\ \E req \in RenderRequests : \E run \in render(req) :
        /\ endpoint' = "render"
        /\ request' = req
        /\ calls' = run.calls
        /\ response' = run.resp

Validate ==
    /\ endpoint = "idle"
    /\ \E req \in UploadRequests : \E run \in validate(req) :
        /\ endpoint' = "validate"
        /\ request' = req
        /\ calls' = run.calls
        /\ response' = run.resp

Svgcheck ==
    /\ endpoint = "idle"
    /\ \E req \in UploadRequests : \E run \in svgcheck(req) :
        /\ endpoint' = "svgcheck"
        /\ request' = req
        /\ calls' = run.calls
        /\ response' = run.resp

Idnits ==
    /\ endpoint = "idle"
    /\ \E req \in IdnitsRequests : \E run \in idnits(req) :
        /\ endpoint' = "idnits"
        /\ request' = req
        /\ calls' = run.calls
        /\ response' = run.resp

AbnfExtract ==
    /\ endpoint = "idle"
    /\ \E req \in AbnfExtractRequests : \E run \in abnf_extract(req) :
        /\ endpoint' = "abnf_extract"
        /\ request' = req
        /\ calls' = run.calls
        /\ response' = run.resp

AbnfParse ==
    /\ endpoint = "idle"
    /\ \E req \in AbnfParseRequests : \E run \in abnf_parse(req) :
        /\ endpoint' = "abnf_parse"
        /\ request' = req
        /\ calls' = run.calls
        /\ response' = run.resp

IdDiff ==
    /\ endpoint = "idle"
    /\ \E req \in IdDiffRequests : \E run \in id_diff(req) :
        /\ endpoint' = "iddiff"
        /\ request' = req
        /\ calls' = run.calls
        /\ response' = run.resp

Respond ==
    /\ endpoint # "idle"
    /\ endpoint' = "idle"
    /\ request' = EmptyRequest
    /\ calls' = <<>>
    /\ response' = NoResponse

Next ==
    \/ Render \/ Validate \/ Svgcheck
    \/ Idnits \/ IdDiff \/ AbnfExtract \/ AbnfParse
    \/ Respond

Spec == Init /\ [][Next]_vars

(***************************************************************************)
(* Properties.                                                             *)
(***************************************************************************)
\* the response is jsonify(error=msg), 400
IsBadRequest(msg) ==
    /\ response.kind = "error"
    /\ response.status = BAD_REQUEST
    /\ response.error = msg

\* the functions the request has called
Called == { calls[i].fn : i \in DOMAIN calls }

\* the functions the request has called, in order
CallOrder == [i \in DOMAIN calls |-> calls[i].fn]

ConversionSteps == {"process_file", "get_xml", "get_html", "get_text", "get_pdf"}

UploadEndpoints == {"render", "validate", "svgcheck"}

\* the allow-list an upload endpoint checks its input against
ProcessOf(name) == IF name = "svgcheck" THEN "svgcheck" ELSE ""

\* the request carries an upload under key, and it has a name
NamedUpload(key) == key \in DOMAIN request.files /\ request.files[key] # <<>>

\* C1: a render request with a named file of an allowed extension and a
\* format other than xml, html, text and pdf is answered 400 'Render format
\* not supported' without any conversion step having been called.
C1_UnsupportedFormatFailsFast ==
    ( /\ endpoint = "render"
      /\ NamedUpload("file")
      /\ allowed_file(request.files["file"], "")
      /\ request.format \notin {<<"xml">>, <<"html">>, <<"text">>, <<"pdf">>} )
    => ( /\ IsBadRequest(<<"Render format not supported">>)
         /\ Called \cap ConversionSteps = {} )

\* C2: every JSON error response of every endpoint has status 400.
C2_ErrorsAreBadRequests ==
    response.kind = "error" => response.status = BAD_REQUEST

\* the errors the utilities raise
TaxonomyErrors ==
    {"KramdownError", "MmarkError", "TextError", "XML2RFCError", "IddiffError",
     "SvgCheckError", "DownloadError", "InvalidURL", "LatestDraftNotFound",
     "TextProcessingError"}

\* C3: every error of the taxonomy a utility raises is caught by the handler
\* that called it: no request ends with one of them uncaught.
C3_NoUncaughtException ==
    ~(response.kind = "uncaught" /\ response.error[1] \in TaxonomyErrors)

\* the fetch at position i of the log is of a URL the client gave, not of one
\* the registry resolved
ClientUrlFetch(i) ==
    /\ calls[i].fn = "get_text_id_from_url"
    /\ (i = 1 \/ calls[i - 1].fn # "get_latest")

\* C4: a URL the client gave is fetched only right after is_valid_url
\* accepted it, and a URL is_valid_url did not accept yields a 400 error.
C4_FetchOnlyAcceptedUrls ==
    \A i \in DOMAIN calls :
        /\ ClientUrlFetch(i) =>
              /\ i > 1
              /\ calls[i - 1] = Call("is_valid_url", calls[i].args, "True")
        /\ (calls[i].fn = "is_valid_url" /\ calls[i].out # "True") =>
              /\ response.kind = "error"
              /\ response.status = BAD_REQUEST

\* C5: an upload with an empty filename is answered 400 with the message of
\* its endpoint, and no staging, download or tool call has been made before.
C5_EmptyFilenameBeforeAnyIO ==
    /\ ( /\ endpoint \in UploadEndpoints
         /\ "file" \in DOMAIN request.files
         /\ request.files["file"] = <<>> )
       => (IsBadRequest(<<"Filename is missing">>) /\ calls = <<>>)
    /\ ( /\ endpoint = "iddiff"
         /\ response.error \in {<<"Filename of first draft missing">>,
                                <<"Filename of second draft missing">>} )
       => (response.status = BAD_REQUEST /\ calls = <<>>)

\* C6: render, validate and svgcheck answer a request without a 'file'
\* upload 400 'No file', with no staging write and no tool call.
C6_NoFile ==
    (endpoint \in UploadEndpoints /\ "file" \notin DOMAIN request.files)
    => (IsBadRequest(<<"No file">>) /\ calls = <<>>)

C6_Witness ==
    /\ endpoint = "svgcheck"
    /\ "file" \notin DOMAIN request.files
    /\ IsBadRequest(<<"No file">>)

\* C7: render, validate and svgcheck answer a named upload whose extension
\* allowed_file rejects 400 'Input file format not supported', with no
\* staging write and no tool call, whatever the render format.
C7_UnsupportedInput ==
    ( /\ endpoint \in UploadEndpoints
      /\ NamedUpload("file")
      /\ ~allowed_file(request.files["file"], ProcessOf(endpoint)) )
    => (IsBadRequest(<<"Input file format not supported">>) /\ calls = <<>>)

C7_Witness ==
    /\ endpoint = "render"
    /\ request.format = <<"flac">>
    /\ NamedUpload("file")
    /\ suffix(request.files["file"]) = ".odt"
    /\ IsBadRequest(<<"Input file format not supported">>)

\* the value of a key of request.values, '' when absent
Value(key) == strip(get(request.values, key, <<>>))

\* the request gives its only draft under key, which is one of doc_1, doc_2,
\* url_1 and url_2: no file and no other doc or url
OnlyDraft(key) ==
    /\ endpoint = "iddiff"
    /\ request.files = <<>>
    /\ \A k \in {"doc_1", "doc_2", "url_1", "url_2"} : truthy(Value(k)) <=> k = key

\* the request with the value of key from given under key to
Moved(from, to) ==
    [request EXCEPT !.values =
        [k \in (DOMAIN request.values \ {from}) \cup {to} |->
            IF k = to THEN request.values[from] ELSE request.values[k]]]

\* the run the request has made: its calls with their outcomes and its response
ThisRun == [calls |-> calls, resp |-> response]

\* C8: an iddiff request with doc_2 = X alone makes the calls and gets the
\* response that the request with doc_1 = X alone makes and gets when the
\* utilities answer alike, and so for url_2 and url_1.
C8_LoneSecondAsFirst ==
    /\ OnlyDraft("doc_2") => ThisRun \in id_diff(Moved("doc_2", "doc_1"))
    /\ OnlyDraft("doc_1") => ThisRun \in id_diff(Moved("doc_1", "doc_2"))
    /\ OnlyDraft("url_2") => ThisRun \in id_diff(Moved("url_2", "url_1"))
    /\ OnlyDraft("url_1") => ThisRun \in id_diff(Moved("url_1", "url_2"))

C8_Witness ==
    /\ OnlyDraft("doc_2")
    /\ response.kind = "ok"
    /\ "get_id_diff" \in Called

\* the positions of the log where a draft was staged
Stagings ==
    { i \in DOMAIN calls :
        /\ calls[i].fn \in {"get_text_id_from_file", "get_text_id_from_url"}
        /\ calls[i].out = "ok" }

\* the file staged at position i of the log, as the n-th of the request
StagedAt(i, n) ==
    IF calls[i].fn = "get_text_id_from_file"
    THEN get_text_id_from_file_result(calls[i].args[1], n).filename
    ELSE get_text_id_from_url_result(calls[i].args[1], n).filename

\* the first and the second document of the request
FirstDocument == StagedAt(CHOOSE i \in Stagings : \A j \in Stagings : i <= j, 1)
SecondDocument == StagedAt(CHOOSE i \in Stagings : \A j \in Stagings : j <= i, 2)

\* no second file, doc or URL is given: the second document is inferred
SecondInferred ==
    /\ "file_2" \notin DOMAIN request.files
    /\ ~truthy(id_diff_params(request).doc_2)
    /\ ~truthy(id_diff_params(request).url_2)

\* C9: get_id_diff is called with the inferred document as old_draft and the
\* first one as new_draft when the second document is inferred, and with the
\* first document as old_draft and the second as new_draft otherwise.
C9_DiffOrder ==
    \A i \in DOMAIN calls :
        (endpoint = "iddiff" /\ calls[i].fn = "get_id_diff") =>
            /\ Cardinality(Stagings) = 2
            /\ FirstDocument # SecondDocument
            /\ IF SecondInferred
               THEN /\ calls[i].args[1] = SecondDocument
                    /\ calls[i].args[2] = FirstDocument
               ELSE /\ calls[i].args[1] = FirstDocument
                    /\ calls[i].args[2] = SecondDocument

C9_Witness ==
    /\ endpoint = "iddiff"
    /\ SecondInferred
    /\ "file_1" \in DOMAIN request.files
    /\ "get_id_diff" \in Called
    /\ response.kind = "ok"

\* the step a render format needs after get_xml
TargetSteps(format) ==
    CASE format = <<"xml">> -> <<>>
      [] format = <<"html">> -> <<"get_html">>
      [] format = <<"text">> -> <<"get_text">>
      [] format = <<"pdf">> -> <<"get_pdf">>

\* C10: a successful render calls process_file, then get_xml, then the one
\* step of its format (none for xml), each once, and no other step.
C10_RenderChain ==
    (endpoint = "render" /\ response.kind = "ok")
    => /\ request.format \in {<<"xml">>, <<"html">>, <<"text">>, <<"pdf">>}
       /\ CallOrder = <<"process_file", "get_xml">> \o TargetSteps(request.format)

C10_Witness ==
    /\ endpoint = "render"
    /\ response.kind = "ok"
    /\ request.format = <<"pdf">>
    /\ NamedUpload("file")
    /\ suffix(request.files["file"]) = ".md"
    /\ CallOrder = <<"process_file", "get_xml", "get_pdf">>

\* whether pattern occurs in text
Contains(text, pattern) == \E i \in DOMAIN text : occurs_at(text, pattern, i)

\* the directories the request has staged its drafts in
StagedDirs ==
    { get_text_id_from_url_result(<<>>, n).dir_path :
        n \in 1..Cardinality(Stagings) }

\* C11: the text an iddiff request returns as the diff holds no occurrence
\* of the staging directory of either draft.
C11_NoStagingDirInDiff ==
    (endpoint = "iddiff" /\ response.kind = "ok")
    => \A dir_path \in StagedDirs : ~Contains(response.body, dir_path)

\* the first draft is staged and get_name finds no draft name in its filename
FirstDraftUnnamed ==
    /\ Stagings # {}
    /\ get_name(last_component(FirstDocument)) = None

\* C12: when no second input is given and get_name cannot parse the staged
\* filename of the first draft, the request ends with the error response
\* 'Can not determine draft/rfc', with no registry lookup and no fetch for a
\* second document, however the first draft was given.
C12_UndeterminableDraftName ==
    (endpoint = "iddiff" /\ SecondInferred /\ FirstDraftUnnamed)
    => /\ response.kind = "error"
       /\ response.error = <<"Can not determine draft/rfc">>
       /\ Cardinality(Stagings) = 1
       /\ \A i \in DOMAIN calls :
              \A j \in Stagings : i > j => calls[i].fn # "get_latest"

\* the call at position i of the log raised an error of the taxonomy
Failed(i) == calls[i].out \in TaxonomyErrors

\* C13: once a tool, registry lookup or download step fails the handler
\* returns the error response at once: the failed call is the last call of
\* the request and the response is the error response.
C13_FailureReturnsError ==
    \A i \in DOMAIN calls :
        Failed(i) => (i = Len(calls) /\ response.kind = "error")

\* the part of C13 that every run keeps: a failed call is the last call of
\* its request, which does not succeed
C13_FailureIsTerminal ==
    \A i \in DOMAIN calls :
        Failed(i) => (i = Len(calls) /\ response.kind \in {"error", "uncaught"})

====
